---- MODULE Spec2Model ----
(***************************************************************************)
(* A model of github_needs_work.py: the LockFile symlink lock, the         *)
(* GithubGet rate-limited fetch, and the PullCache update/save cycle.      *)
(***************************************************************************)
EXTENDS Integers, Sequences, FiniteSets, TLC

(***************************************************************************)
(* Bounds of the model.                                                    *)
(***************************************************************************)
\* number of processes that use the lock path
NumProcs == 2
\* deepest chain of '.lock' suffixes: level k is filename + k * '.lock'
MaxLevel == 1
\* cap on the reentrancy counter of one LockFile object
MaxCount == 2

\* number of write() calls json.dump needs for one snapshot
NumChunks == 2
\* largest whole second a stored watermark of the save model takes
MaxStamp == 1

\* number of items (issues and pull requests) of the remote project
NumItems == 2
\* items per page of the remote listing
PerPage == 1
\* number of modifications of remote items in one run
MaxMods == 1
\* greatest quota the server reports
MaxRemaining == 1
\* number of urls get() is called with
NumUrls == 2
\* the nearest reset time the server reports, in seconds from the start
ResetSoon == 2
\* line 371: time.sleep(min(5*60, s))
SleepCap == 300
\* line 364: s = self.ratelimit_reset + 5 - time.time()
Margin == 5
\* clock ticks per second: format_time keeps whole seconds only
TicksPerSec == 2
\* last tick of the clock: the first tick of the next second
MaxTime == TicksPerSec

Procs == 1..NumProcs
\* a process id that names no running process (no /proc/<pid> directory)
DeadPid == NumProcs + 1
AllPids == Procs \cup {DeadPid}
Levels == 0..MaxLevel

VARIABLES
    fs,        \* fs[k]: target of the symlink at level k, <<>> when absent
    alive,     \* alive[q]: /proc/<q> is a directory
    count,     \* count[p][k]: LockFile.count of p's object for level k
    stack,     \* stack[p]: the LockFile calls p is inside, outermost first
    ret,       \* ret[p]: outcome of p's last finished top-level call
    init_fs,   \* history: the lock entries the run started with
    solo,      \* history: solo[p], p's acquire() met a stale entry and no contender
    used,      \* history: used[p], p has called acquire() or release()
    mpc,       \* mpc[p]: where p is in main()
    exc,       \* exc[p]: an exception is propagating out of main()
    rc,        \* rc[p]: how main() ended, "none" before it ends
    trace,     \* history: trace[p], the steps of main() p has executed
    cache,     \* PullCache.cache, the in-memory snapshot
    disk,      \* the snapshot file gh_cache.json: <<>> absent, else <<text>>
    tmpf,      \* the temp file of the save in progress: <<>> absent, else <<text>>
    spc,       \* where save() is
    before,    \* history: the snapshot file when save() began
    seen,      \* history: what a concurrent reader of the snapshot file last read
    utc,       \* datetime.datetime.utcnow(), in ticks
    remote,    \* remote[k]: item number k of the project on the server
    call,      \* the update() call in progress and its local variables
    cache0,    \* history: cache when the current update() was called
    began,     \* history: began[k] is the version item k had when the current
               \* update() was called, if it is a pull modified since the
               \* watermark the call found, else 0
    mods,      \* number of remote modifications so far
    clean,     \* history: update() calls begun since the last remote modification
    prevMap,   \* history: <<mapping>> left by the preceding update(), <<>> if it failed
    clock,     \* time.time(), in seconds
    ratelimit_remaining,   \* GithubGet.ratelimit_remaining
    ratelimit_reset,       \* GithubGet.ratelimit_reset
    g          \* the GithubGet.get() call in progress and its local variables

lockVars == <<fs, alive, count, stack, ret, init_fs, solo, used>>
mainVars == <<mpc, exc, rc, trace>>
fileVars == <<disk, tmpf, spc, before, seen>>
syncRest == <<utc, remote, call, cache0, began, mods, clean, prevMap>>
syncVars == <<cache, syncRest>>
getVars == <<clock, ratelimit_remaining, ratelimit_reset, g>>
dataVars == <<fileVars, syncVars, getVars>>
outsideLock == <<mainVars, dataVars>>
vars == <<lockVars, mainVars, dataVars>>

(***************************************************************************)
(* LockFile (src/github_needs_work.py, lines 415-467).  Every step is one  *)
(* system call of the method together with the local code up to the next.  *)
(***************************************************************************)
Frame(op, pc, block) == [op |-> op, pc |-> pc, lock_pid |-> <<>>, block |-> block]

Top(p) == stack[p][Len(stack[p])]
\* the level of the LockFile object whose method is running
Level(p) == Len(stack[p]) - 1
Running(p, op, pc) ==
    /\ alive[p]
    /\ stack[p] # <<>>
    /\ Top(p).op = op
    /\ Top(p).pc = pc

SetTop(p, f) == [stack EXCEPT ![p] = [@ EXCEPT ![Len(@)] = f]]
Pop(p) == [stack EXCEPT ![p] = SubSeq(@, 1, Len(@) - 1)]
Push(st, p, f) == [st EXCEPT ![p] = Append(@, f)]

\* the entry at level k names a process that is not running
Stale(k) == fs[k] # <<>> /\ ~alive[fs[k][1]]

\* history: p enters a call that touches the filesystem; every call in progress
\* of another process now has a contender
Contend(p, mine) ==
    [r \in Procs |-> IF r = p THEN mine
                     ELSE IF stack[r] # <<>> THEN FALSE ELSE solo[r]]

\* acquire(), lines 430-432: count > 0, the reentrant path
AcquireReentrantOp(p) ==
    /\ alive[p]
    /\ stack[p] = <<>>
    /\ count[p][0] > 0
    /\ count[p][0] < MaxCount
    /\ count' = [count EXCEPT ![p][0] = @ + 1]
    /\ ret' = [ret EXCEPT ![p] = "acq_true"]
    /\ UNCHANGED <<fs, alive, stack, init_fs, solo>>
    /\ used' = [used EXCEPT ![p] = TRUE]

\* acquire(block), line 434: count = 0, enter the while loop
AcquireEnterOp(p, block) ==
    /\ alive[p]
    /\ stack[p] = <<>>
    /\ count[p][0] = 0
    /\ stack' = Push(stack, p, Frame("acquire", "readlink", block))
    /\ ret' = [ret EXCEPT ![p] = "none"]
    /\ solo' = Contend(p, Stale(0) /\ \A q \in Procs \ {p} : stack[q] = <<>>)
    /\ UNCHANGED <<fs, alive, count, init_fs>>
    /\ used' = [used EXCEPT ![p] = TRUE]

\* line 436: lock_pid = os.readlink(self.filename); OSError when the entry is absent
Readlink(p) ==
    /\ Running(p, "acquire", "readlink")
    /\ LET k == Level(p) IN
       IF fs[k] = <<>>
       THEN stack' = SetTop(p, [Top(p) EXCEPT !.pc = "symlink"])
       ELSE stack' = SetTop(p, [Top(p) EXCEPT !.pc = "isdir", !.lock_pid = fs[k]])
    /\ UNCHANGED <<fs, alive, count, ret, init_fs, solo, used>>
    /\ UNCHANGED outsideLock

\* lines 437-440: if not os.path.isdir('/proc/%s' % lock_pid):
\*     sublock = LockFile(self.filename + '.lock'); sublock.acquire()
Isdir(p) ==
    /\ Running(p, "acquire", "isdir")
    /\ LET k == Level(p)
           owner == Top(p).lock_pid[1]
       IN IF alive[owner]
          THEN /\ stack' = SetTop(p, [Top(p) EXCEPT !.pc = "symlink", !.lock_pid = <<>>])
               /\ count' = count
          ELSE /\ k < MaxLevel
               /\ stack' = Push(SetTop(p, [Top(p) EXCEPT !.pc = "unlink", !.lock_pid = <<>>]),
                                p, Frame("acquire", "readlink", TRUE))
               /\ count' = [count EXCEPT ![p][k + 1] = 0]
    /\ UNCHANGED <<fs, alive, ret, init_fs, solo, used>>
    /\ UNCHANGED outsideLock

\* Unlink without the os.unlink: the stale entry is left in place
UnlinkSkipped(p) ==
    /\ Running(p, "acquire", "unlink")
    /\ stack' = Push(SetTop(p, [Top(p) EXCEPT !.pc = "symlink"]),
                     p, Frame("release", "islink", TRUE))
    /\ UNCHANGED <<fs, alive, count, ret, init_fs, solo, used>>
    /\ UNCHANGED outsideLock

\* lines 441-446: os.unlink(self.filename) under the sublock, then
\* finally: sublock.release(); an OSError of the unlink is swallowed
Unlink(p) ==
    /\ Running(p, "acquire", "unlink")
    /\ LET k == Level(p) IN
       /\ fs' = [fs EXCEPT ![k] = <<>>]
       /\ stack' = Push(SetTop(p, [Top(p) EXCEPT !.pc = "symlink"]),
                        p, Frame("release", "islink", TRUE))
    /\ UNCHANGED <<alive, count, ret, init_fs, solo, used>>
    /\ UNCHANGED outsideLock

\* Symlink that replaces an existing entry instead of failing with errno 17
SymlinkOverwrite(p) ==
    /\ Running(p, "acquire", "symlink")
    /\ LET k == Level(p) IN
       /\ fs' = [fs EXCEPT ![k] = <<p>>]
       /\ count' = [count EXCEPT ![p][k] = @ + 1]
       /\ stack' = Pop(p)
       /\ ret' = IF k = 0 THEN [ret EXCEPT ![p] = "acq_true"] ELSE ret
    /\ UNCHANGED <<alive, init_fs, solo, used>>
    /\ UNCHANGED outsideLock

\* lines 448-459: os.symlink(repr(self.pid), self.filename); errno 17 when the
\* entry exists, then return False (not block) or sleep
Symlink(p) ==
    /\ Running(p, "acquire", "symlink")
    /\ LET k == Level(p) IN
       IF fs[k] = <<>>
       THEN /\ fs' = [fs EXCEPT ![k] = <<p>>]
            /\ count' = [count EXCEPT ![p][k] = @ + 1]
            /\ stack' = Pop(p)
            /\ ret' = IF k = 0 THEN [ret EXCEPT ![p] = "acq_true"] ELSE ret
       ELSE /\ UNCHANGED <<fs, count>>
            /\ IF Top(p).block
               THEN /\ stack' = SetTop(p, [Top(p) EXCEPT !.pc = "sleep"])
                    /\ ret' = ret
               ELSE /\ stack' = Pop(p)
                    /\ ret' = [ret EXCEPT ![p] = "acq_false"]
    /\ UNCHANGED <<alive, init_fs, solo, used>>
    /\ UNCHANGED outsideLock

\* an acquire() that gives up after the sleep
SleepGiveUp(p) ==
    /\ Running(p, "acquire", "sleep")
    /\ stack' = Pop(p)
    /\ ret' = IF Level(p) = 0 THEN [ret EXCEPT ![p] = "acq_false"] ELSE ret
    /\ UNCHANGED <<fs, alive, count, init_fs, solo, used>>
    /\ UNCHANGED outsideLock

\* line 456: time.sleep(1), then the next iteration of the while loop
Sleep(p) ==
    /\ Running(p, "acquire", "sleep")
    /\ stack' = SetTop(p, [Top(p) EXCEPT !.pc = "readlink"])
    /\ UNCHANGED <<fs, alive, count, ret, init_fs, solo, used>>
    /\ UNCHANGED outsideLock

\* release() that removes the entry whenever count >= 1, not only at count == 1
ReleaseCallEager(p) ==
    /\ alive[p]
    /\ stack[p] = <<>>
    /\ IF count[p][0] >= 1
       THEN /\ stack' = Push(stack, p, Frame("release", "islink", TRUE))
            /\ ret' = [ret EXCEPT ![p] = "none"]
            /\ count' = count
            /\ solo' = Contend(p, solo[p])
       ELSE /\ ret' = [ret EXCEPT ![p] = "rel_invalid"]
            /\ UNCHANGED <<stack, count, solo>>
    /\ UNCHANGED <<fs, alive, init_fs>>
    /\ used' = [used EXCEPT ![p] = TRUE]

\* release(), lines 461-467, up to its first system call
ReleaseCallOp(p) ==
    /\ alive[p]
    /\ stack[p] = <<>>
    /\ IF count[p][0] = 1
       THEN /\ stack' = Push(stack, p, Frame("release", "islink", TRUE))
            /\ ret' = [ret EXCEPT ![p] = "none"]
            /\ count' = count
            /\ solo' = Contend(p, solo[p])
       ELSE IF count[p][0] < 1
       THEN \* raise RuntimeError('Invalid lock nesting')
            /\ ret' = [ret EXCEPT ![p] = "rel_invalid"]
            /\ UNCHANGED <<stack, count, solo>>
       ELSE /\ count' = [count EXCEPT ![p][0] = @ - 1]
            /\ ret' = [ret EXCEPT ![p] = "rel_ok"]
            /\ UNCHANGED <<stack, solo>>
    /\ UNCHANGED <<fs, alive, init_fs>>
    /\ used' = [used EXCEPT ![p] = TRUE]

\* line 463: if os.path.islink(self.filename)
RelIslink(p) ==
    /\ Running(p, "release", "islink")
    /\ LET k == Level(p) IN
       IF fs[k] # <<>>
       THEN /\ stack' = SetTop(p, [Top(p) EXCEPT !.pc = "unlink"])
            /\ UNCHANGED <<count, ret>>
       ELSE /\ count' = [count EXCEPT ![p][k] = @ - 1]
            /\ stack' = Pop(p)
            /\ ret' = IF k = 0 THEN [ret EXCEPT ![p] = "rel_ok"] ELSE ret
    /\ UNCHANGED <<fs, alive, init_fs, solo, used>>
    /\ UNCHANGED outsideLock

\* lines 464-467: os.unlink(self.filename); self.count -= 1
RelUnlink(p) ==
    /\ Running(p, "release", "unlink")
    /\ LET k == Level(p) IN
       IF fs[k] # <<>>
       THEN /\ fs' = [fs EXCEPT ![k] = <<>>]
            /\ count' = [count EXCEPT ![p][k] = @ - 1]
            /\ stack' = Pop(p)
            /\ ret' = IF k = 0 THEN [ret EXCEPT ![p] = "rel_ok"] ELSE ret
       ELSE \* OSError: it leaves release() before count is decremented
            /\ UNCHANGED <<fs, count>>
            /\ stack' = Pop(p)
            /\ ret' = IF k = 0 THEN [ret EXCEPT ![p] = "rel_oserror"] ELSE ret
    /\ UNCHANGED <<alive, init_fs, solo, used>>
    /\ UNCHANGED outsideLock

\* a caller of the LockFile API: acquire(block) and release() in any order
AcquireReentrant(p) == AcquireReentrantOp(p) /\ UNCHANGED outsideLock
AcquireEnter(p, block) == AcquireEnterOp(p, block) /\ UNCHANGED outsideLock
ReleaseCall(p) == ReleaseCallOp(p) /\ UNCHANGED outsideLock

\* the process ends at any point: /proc/<pid> disappears and its memory (its
\* LockFile objects, its calls) with it.  The deepest level of the model is
\* kept free of stale entries.
Die(p) ==
    /\ alive[p]
    /\ fs[MaxLevel] # <<p>>
    /\ \A q \in Procs : Len(stack[q]) = MaxLevel + 1 => Top(q).lock_pid # <<p>>
    /\ alive' = [alive EXCEPT ![p] = FALSE]
    /\ count' = [count EXCEPT ![p] = [k \in Levels |-> 0]]
    /\ stack' = [stack EXCEPT ![p] = <<>>]
    /\ ret' = [ret EXCEPT ![p] = "none"]
    /\ solo' = [solo EXCEPT ![p] = FALSE]
    /\ UNCHANGED <<fs, init_fs, used>>
    /\ UNCHANGED outsideLock

LockInit ==
    /\ fs \in [Levels -> {<<>>, <<DeadPid>>}]
    /\ fs[MaxLevel] = <<>>
    /\ init_fs = fs
    /\ alive = [q \in AllPids |-> q \in Procs]
    /\ count = [p \in Procs |-> [k \in Levels |-> 0]]
    /\ stack = [p \in Procs |-> <<>>]
    /\ ret = [p \in Procs |-> "none"]
    /\ solo = [p \in Procs |-> FALSE]
    /\ used = [p \in Procs |-> FALSE]

LockStep(p) ==
    \/ Readlink(p)
    \/ Isdir(p)
    \/ Unlink(p)
    \/ Symlink(p)
    \/ Sleep(p)
    \/ RelIslink(p)
    \/ RelUnlink(p)

(***************************************************************************)
(* main() (lines 100-127): one run of the program per process.             *)
(***************************************************************************)
MainSteps == {"probe", "load", "update", "save"}

Log(p, what) == [trace EXCEPT ![p] = Append(@, what)]

\* lines 111-113: lock = LockFile('gh_cache.json.lock'); lock.acquire(block=False)
MainAcquire(p) ==
    /\ mpc[p] = "start"
    /\ AcquireEnterOp(p, FALSE)
    /\ mpc' = [mpc EXCEPT ![p] = "acquire"]
    /\ trace' = Log(p, "acquire")
    /\ UNCHANGED <<exc, rc>>
    /\ UNCHANGED dataVars

\* line 113 and lines 123-125: the branch on what acquire() returned; on False
\* print, return 1 and the process ends
MainAcquired(p) ==
    /\ mpc[p] = "acquire"
    /\ alive[p]
    /\ stack[p] = <<>>
    /\ IF ret[p] = "acq_true"
       THEN /\ mpc' = [mpc EXCEPT ![p] = "probe"]
            /\ UNCHANGED <<rc, alive>>
       ELSE /\ mpc' = [mpc EXCEPT ![p] = "done"]
            /\ rc' = [rc EXCEPT ![p] = "return 1"]
            /\ alive' = [alive EXCEPT ![p] = FALSE]
    /\ UNCHANGED <<fs, count, stack, ret, init_fs, solo, exc, trace, used>>
    /\ UNCHANGED dataVars

\* line 115: getter = GithubGet(auth): the rate_limit request, which may raise
MainProbe(p, ok) ==
    /\ mpc[p] = "probe"
    /\ alive[p]
    /\ trace' = Log(p, "probe")
    /\ mpc' = [mpc EXCEPT ![p] = IF ok THEN "load" ELSE "release"]
    /\ exc' = [exc EXCEPT ![p] = ~ok]
    /\ UNCHANGED <<lockVars, rc>>
    /\ UNCHANGED dataVars

\* a main() that goes from the load straight to the save
MainLoadThenSave(p, ok) ==
    /\ mpc[p] = "load"
    /\ alive[p]
    /\ trace' = Log(p, "load")
    /\ mpc' = [mpc EXCEPT ![p] = IF ok THEN "save" ELSE "release"]
    /\ exc' = [exc EXCEPT ![p] = ~ok]
    /\ UNCHANGED <<lockVars, rc>>
    /\ UNCHANGED dataVars

\* line 116: pull_cache = PullCache(...): reads the snapshot file, may raise
MainLoad(p, ok) ==
    /\ mpc[p] = "load"
    /\ alive[p]
    /\ trace' = Log(p, "load")
    /\ mpc' = [mpc EXCEPT ![p] = IF ok THEN "process" ELSE "release"]
    /\ exc' = [exc EXCEPT ![p] = ~ok]
    /\ UNCHANGED <<lockVars, rc>>
    /\ UNCHANGED dataVars

\* lines 117-118: process(...): pull_cache.update() and the report, may raise
MainProcess(p, ok) ==
    /\ mpc[p] = "process"
    /\ alive[p]
    /\ trace' = Log(p, "update")
    /\ mpc' = [mpc EXCEPT ![p] = "save"]
    /\ exc' = [exc EXCEPT ![p] = ~ok]
    /\ UNCHANGED <<lockVars, rc>>
    /\ UNCHANGED dataVars

\* lines 119-120: finally: pull_cache.save(), which may raise
MainSave(p, ok) ==
    /\ mpc[p] = "save"
    /\ alive[p]
    /\ trace' = Log(p, "save")
    /\ mpc' = [mpc EXCEPT ![p] = "release"]
    /\ exc' = [exc EXCEPT ![p] = @ \/ ~ok]
    /\ UNCHANGED <<lockVars, rc>>
    /\ UNCHANGED dataVars

\* lines 121-122: finally: lock.release()
MainRelease(p) ==
    /\ mpc[p] = "release"
    /\ ReleaseCallOp(p)
    /\ mpc' = [mpc EXCEPT ![p] = "releasing"]
    /\ trace' = Log(p, "release")
    /\ UNCHANGED <<exc, rc>>
    /\ UNCHANGED dataVars

\* line 127: return 0, or the exception leaves main(); the process ends
MainReturn(p) ==
    /\ mpc[p] = "releasing"
    /\ alive[p]
    /\ stack[p] = <<>>
    /\ mpc' = [mpc EXCEPT ![p] = "done"]
    /\ rc' = [rc EXCEPT ![p] = IF exc[p] \/ ret[p] # "rel_ok" THEN "raised" ELSE "return 0"]
    /\ alive' = [alive EXCEPT ![p] = FALSE]
    /\ UNCHANGED <<fs, count, stack, ret, init_fs, solo, exc, trace, used>>
    /\ UNCHANGED dataVars

MainInit ==
    /\ mpc = [p \in Procs |-> "start"]
    /\ exc = [p \in Procs |-> FALSE]
    /\ rc = [p \in Procs |-> "none"]
    /\ trace = [p \in Procs |-> <<>>]

(***************************************************************************)
(* The snapshot file and PullCache.save() (lines 310-317).                 *)
(***************************************************************************)
\* json.dump: the text of a snapshot, written in NumChunks pieces
Serialize(c) == [i \in 1..NumChunks |-> [doc |-> c, part |-> i]]
\* json.load accepts a text: it is the whole serialization of one snapshot
Complete(t) ==
    /\ Len(t) = NumChunks
    /\ \A i \in 1..NumChunks : t[i] = [doc |-> t[1].doc, part |-> i]
Parse(t) == t[1].doc

\* a snapshot with no keys ({}), as PullCache starts without a file (line 264)
EmptyCache == [last_updated |-> <<>>, pulls |-> <<>>]
\* the snapshots the save model writes
SaveDocs ==
    {EmptyCache} \cup
    {[last_updated |-> <<w>>, pulls |-> <<>>] : w \in 0..MaxStamp}

\* save() that dumps straight into the snapshot file
SaveWriteInPlace ==
    /\ spc = "dump"
    /\ LET text == IF disk = before THEN <<>> ELSE disk[1]
           n == Len(text) + 1
       IN /\ disk' = <<Append(text, Serialize(cache)[n])>>
          /\ spc' = IF n = NumChunks THEN "done" ELSE "dump"
    /\ UNCHANGED <<tmpf, before, seen, syncVars, getVars, lockVars, mainVars>>

\* lines 312-315: tempfile.mkstemp(prefix=..., dir=...), os.close(fd),
\* open(tmp, 'w'): an empty temp file beside the snapshot file
SaveMkstemp ==
    /\ spc = "idle"
    /\ tmpf' = << <<>> >>
    /\ before' = disk
    /\ spc' = "dump"
    /\ UNCHANGED <<disk, seen, syncVars, getVars, lockVars, mainVars>>

\* line 316: json.dump(self.cache, f): one more piece reaches the temp file;
\* after the last piece the with block closes it
SaveWrite ==
    /\ spc = "dump"
    /\ LET n == Len(tmpf[1]) + 1 IN
       /\ tmpf' = <<Append(tmpf[1], Serialize(cache)[n])>>
       /\ spc' = IF n = NumChunks THEN "rename" ELSE "dump"
    /\ UNCHANGED <<disk, before, seen, syncVars, getVars, lockVars, mainVars>>

\* line 317: os.rename(tmp, self.filename)
SaveRename ==
    /\ spc = "rename"
    /\ disk' = tmpf
    /\ tmpf' = <<>>
    /\ spc' = "done"
    /\ UNCHANGED <<before, seen, syncVars, getVars, lockVars, mainVars>>

\* a step of save() raises (mkstemp, a write, the rename): the exception
\* leaves save() and whatever temp file there is stays behind
SaveFail ==
    /\ spc \in {"idle", "dump", "rename"}
    /\ spc' = "raised"
    /\ before' = IF spc = "idle" THEN disk ELSE before
    /\ UNCHANGED <<disk, tmpf, seen, syncVars, getVars, lockVars, mainVars>>

\* the process dies inside save()
SaveCrash ==
    /\ spc \in {"dump", "rename"}
    /\ spc' = "crashed"
    /\ UNCHANGED <<disk, tmpf, before, seen, syncVars, getVars, lockVars, mainVars>>

\* the next run of the program: another snapshot in memory, another save()
SaveAgain ==
    /\ spc \in {"done", "raised", "crashed"}
    /\ cache' \in SaveDocs
    /\ tmpf' = <<>>
    /\ spc' = "idle"
    /\ before' = disk
    /\ UNCHANGED <<disk, seen, syncRest, getVars, lockVars, mainVars>>

\* another process opens and reads the snapshot file (lines 261-262)
ReaderRead ==
    /\ seen' = disk
    /\ seen' # seen
    /\ UNCHANGED <<disk, tmpf, spc, before, syncVars, getVars, lockVars, mainVars>>

FileIdle ==
    /\ disk = <<>>
    /\ tmpf = <<>>
    /\ spc = "idle"
    /\ before = <<>>
    /\ seen = <<>>

SaveInit ==
    /\ cache \in SaveDocs
    /\ disk \in {<<>>} \cup {<<Serialize(d)>> : d \in SaveDocs}
    /\ tmpf = <<>>
    /\ spc = "idle"
    /\ before = disk
    /\ seen = <<>>

(***************************************************************************)
(* The remote project, as the listing and sub-resource requests see it.    *)
(***************************************************************************)
Ids == 1..NumItems
Parts == <<"events", "commits", "reviews">>

Min(a, b) == IF a < b THEN a ELSE b

\* lines 207-208: format_time, '%Y-%m-%dT%H:%M:%SZ': the whole second of a time
FormatTime(t) == t \div TicksPerSec
\* lines 215-216: parse_time of a '...Z' stamp: the time at that whole second
ParseTime(w) == w * TicksPerSec
\* line 270: '1970-1-1T00:00:00Z'
EpochStamp == 0

\* line 283: "{0}".format(pull['number']), the decimal text of the number
Key(number) == number
NoPulls == [k \in Ids |-> <<>>]

\* line 287: ...issues?sort=updated&direction=desc&since={since}&state=all
Listed(since) == {k \in Ids : FormatTime(remote[k].upd) >= since}
Newer(a, b) ==
    \/ remote[a].upd > remote[b].upd
    \/ remote[a].upd = remote[b].upd /\ a >= b
RECURSIVE SortDesc(_)
SortDesc(S) ==
    IF S = {} THEN <<>>
    ELSE LET m == CHOOSE x \in S : \A y \in S : Newer(x, y)
         IN <<m>> \o SortDesc(S \ {m})
\* a server that answers every page request with the first page
PageOfFirst(all, n) == SubSeq(all, 1, Min(PerPage, Len(all)))
PageOf(all, n) == SubSeq(all, (n - 1) * PerPage + 1, Min(n * PerPage, Len(all)))
\* one item of the listing, as decoded from the response
Item(k) ==
    [number |-> k, ver |-> remote[k].ver, open |-> remote[k].open,
     pr |-> remote[k].pr, events |-> <<>>, commits |-> <<>>, reviews |-> <<>>]

(***************************************************************************)
(* PullCache.update() and PullCache._get() (lines 269-308).  A step is one *)
(* request of the getter with the local code that follows it; a request    *)
(* returns its payload or raises.                                          *)
(***************************************************************************)
\* the watermark of a snapshot; a snapshot without one counts from the epoch
Watermark(c) == IF c.last_updated = <<>> THEN EpochStamp ELSE c.last_updated[1]
\* the record mapping of a snapshot
Records(c) == IF c.pulls = <<>> THEN NoPulls ELSE c.pulls[1]

IdleCall ==
    [pc |-> "idle", prev_time |-> 0, new_time |-> 0, since |-> 0, page |-> 0,
     data |-> <<>>, pulls |-> <<>>, i |-> 0, part |-> 0]

\* a _get that makes the three requests for every pull, open or not
NextOpenOrNot(ps, i) == IF i <= Len(ps) THEN i ELSE 0

\* lines 293-295: the next pull of the list that is open, 0 when there is none
NextOpen(ps, i) ==
    IF \E j \in i..Len(ps) : ps[j].open
    THEN CHOOSE j \in i..Len(ps) : ps[j].open /\ \A h \in i..(j - 1) : ~ps[h].open
    ELSE 0

\* update() that merges field by field (dict.update) instead of replacing
RECURSIVE MergeFields(_, _)
MergeFields(m, ps) ==
    IF ps = <<>> THEN m
    ELSE LET new == Head(ps)
             old == m[Key(new.number)]
             rec == IF old = <<>> THEN new
                    ELSE [new EXCEPT
                            !.events = IF new.events = <<>> THEN old[1].events ELSE @,
                            !.commits = IF new.commits = <<>> THEN old[1].commits ELSE @,
                            !.reviews = IF new.reviews = <<>> THEN old[1].reviews ELSE @]
         IN MergeFields([m EXCEPT ![Key(new.number)] = <<rec>>], Tail(ps))

\* lines 282-284: for pull in new_pulls: pulls[k] = pull
RECURSIVE Merge(_, _)
Merge(m, ps) ==
    IF ps = <<>> THEN m
    ELSE Merge([m EXCEPT ![Key(Head(ps).number)] = <<Head(ps)>>], Tail(ps))

\* line 279: format_time(new_time)
Stamp(c) == FormatTime(c.new_time)

\* lines 308 and 279-284: _get returns, update() stores watermark and records
Finish(ps) ==
    /\ cache' = [last_updated |-> <<Stamp(call)>>,
                 pulls |-> <<Merge(cache.pulls[1], ps)>>]
    /\ call' = [call EXCEPT !.pc = "done", !.data = <<>>, !.pulls = ps,
                            !.i = 0, !.part = 0]

\* lines 293-308: go on with the sub-requests of the next open pull, if any
Continue(ps, i) ==
    IF NextOpen(ps, i) # 0
    THEN /\ call' = [call EXCEPT !.pc = "sub", !.data = <<>>, !.pulls = ps,
                                 !.i = NextOpen(ps, i), !.part = 1]
         /\ cache' = cache
    ELSE Finish(ps)

\* lines 270-278 and 287-288: the defaults, prev_time, new_time and the url
UpdateBegin ==
    /\ call.pc = "idle"
    /\ LET c == [last_updated |-> IF cache.last_updated = <<>>
                                  THEN <<EpochStamp>> ELSE cache.last_updated,
                 pulls |-> IF cache.pulls = <<>> THEN <<NoPulls>> ELSE cache.pulls]
           prev == ParseTime(c.last_updated[1])
       IN /\ cache' = c
          /\ call' = [IdleCall EXCEPT !.pc = "list", !.prev_time = prev,
                                      !.new_time = utc, !.since = FormatTime(prev),
                                      !.page = 1]
    /\ cache0' = cache
    /\ began' = [k \in Ids |->
                    IF remote[k].pr /\ FormatTime(remote[k].upd) >= Watermark(cache)
                    THEN remote[k].ver ELSE 0]
    /\ clean' = Min(clean + 1, 2)
    /\ UNCHANGED <<utc, remote, mods, prevMap, fileVars, getVars, lockVars, mainVars>>

\* lines 352-358 and 290-291: one page of get_multipage; after the last page
\* the pulls are picked out of the data
GetPage(ok) ==
    /\ call.pc = "list"
    /\ IF ok
       THEN LET all == SortDesc(Listed(call.since))
                pg == PageOf(all, call.page)
                data == call.data \o [j \in 1..Len(pg) |-> Item(pg[j])]
            IN IF Len(all) > call.page * PerPage
               THEN /\ call' = [call EXCEPT !.data = data, !.page = @ + 1]
                    /\ cache' = cache
               ELSE Continue(SelectSeq(data, LAMBDA x : x.pr), 1)
       ELSE /\ call' = [IdleCall EXCEPT !.pc = "failed"]
            /\ cache' = cache
    /\ UNCHANGED <<utc, remote, cache0, began, mods, clean, prevMap,
                   fileVars, getVars, lockVars, mainVars>>

\* an update() that stores its start time although a sub-request has failed
SubFetchStamping(ok) ==
    /\ call.pc = "sub"
    /\ IF ok
       THEN LET got == <<[pull |-> call.pulls[call.i].number, what |-> Parts[call.part]]>>
                pull == call.pulls[call.i]
                ps == [call.pulls EXCEPT ![call.i] =
                         IF call.part = 1 THEN [pull EXCEPT !.events = got]
                         ELSE IF call.part = 2 THEN [pull EXCEPT !.commits = got]
                         ELSE [pull EXCEPT !.reviews = got]]
            IN IF call.part < Len(Parts)
               THEN /\ call' = [call EXCEPT !.pulls = ps, !.part = @ + 1]
                    /\ cache' = cache
               ELSE Continue(ps, call.i + 1)
       ELSE /\ call' = [IdleCall EXCEPT !.pc = "failed"]
            /\ cache' = [cache EXCEPT !.last_updated = <<FormatTime(call.new_time)>>]
    /\ UNCHANGED <<utc, remote, cache0, began, mods, clean, prevMap,
                   fileVars, getVars, lockVars, mainVars>>

\* lines 297-306: the events, commits and reviews requests of one open pull
SubFetch(ok) ==
    /\ call.pc = "sub"
    /\ IF ok
       THEN LET got == <<[pull |-> call.pulls[call.i].number, what |-> Parts[call.part]]>>
                pull == call.pulls[call.i]
                ps == [call.pulls EXCEPT ![call.i] =
                         IF call.part = 1 THEN [pull EXCEPT !.events = got]
                         ELSE IF call.part = 2 THEN [pull EXCEPT !.commits = got]
                         ELSE [pull EXCEPT !.reviews = got]]
            IN IF call.part < Len(Parts)
               THEN /\ call' = [call EXCEPT !.pulls = ps, !.part = @ + 1]
                    /\ cache' = cache
               ELSE Continue(ps, call.i + 1)
       ELSE /\ call' = [IdleCall EXCEPT !.pc = "failed"]
            /\ cache' = cache
    /\ UNCHANGED <<utc, remote, cache0, began, mods, clean, prevMap,
                   fileVars, getVars, lockVars, mainVars>>

\* update() has returned or raised; its caller goes on
UpdateReturn ==
    /\ call.pc \in {"done", "failed"}
    /\ prevMap' = IF call.pc = "done" THEN cache.pulls ELSE <<>>
    /\ call' = IdleCall
    /\ began' = [k \in Ids |-> 0]
    /\ UNCHANGED <<cache, utc, remote, cache0, mods, clean,
                   fileVars, getVars, lockVars, mainVars>>

\* time passes
Tick ==
    /\ utc < MaxTime
    /\ utc' = utc + 1
    /\ UNCHANGED <<cache, remote, call, cache0, began, mods, clean, prevMap,
                   fileVars, getVars, lockVars, mainVars>>

\* somebody changes item k on the server: new content, updated_at = now
Modify(k, open) ==
    /\ mods < MaxMods
    /\ remote' = [remote EXCEPT ![k] = [@ EXCEPT !.ver = @ + 1, !.upd = utc,
                                                 !.open = open]]
    /\ mods' = mods + 1
    /\ clean' = 0
    /\ UNCHANGED <<cache, utc, call, cache0, began, prevMap,
                   fileVars, getVars, lockVars, mainVars>>

SyncIdle ==
    /\ utc = 0
    /\ remote = [k \in Ids |-> [ver |-> 1, upd |-> 0, open |-> TRUE, pr |-> TRUE]]
    /\ call = IdleCall
    /\ cache0 = EmptyCache
    /\ began = [k \in Ids |-> 0]
    /\ mods = 0
    /\ clean = 0
    /\ prevMap = <<>>

\* the snapshot the PullCache starts from (lines 258-264): none, or one that an
\* earlier update() wrote when the clock of its host read MaxTime
SyncInit ==
    /\ cache \in {EmptyCache,
                  [last_updated |-> <<FormatTime(MaxTime)>>, pulls |-> <<NoPulls>>]}
    /\ utc = 0
    /\ \E issue \in BOOLEAN :
        remote = [k \in Ids |-> [ver |-> 1, upd |-> 0, open |-> TRUE,
                                 pr |-> ~(issue /\ k = NumItems)]]
    /\ call = IdleCall
    /\ cache0 = EmptyCache
    /\ began = [k \in Ids |-> 0]
    /\ mods = 0
    /\ clean = 0
    /\ prevMap = <<>>

(***************************************************************************)
(* GithubGet.get() (lines 360-412).  The server answers a request with a   *)
(* status, with or without the two quota headers, with a body and with or  *)
(* without a next link.                                                    *)
(***************************************************************************)
Urls == 1..NumUrls
\* the reset times the server names: past, near, and farther than one sleep
ResetTimes == {0, ResetSoon, SleepCap + ResetSoon}
\* the clock runs until the farthest reset time and its margin have passed
MaxClock == SleepCap + ResetSoon + Margin + 1
StatusCodes == {200, 403, 500}
Bodies == {"payload", "null", "garbled"}

\* the url a next link names
NextUrl(u) == (u % NumUrls) + 1

IdleGet ==
    [pc |-> "idle", url |-> 0, wake |-> 0, code |-> 0, hrem |-> <<>>,
     hreset |-> <<>>, data |-> <<>>, next |-> <<>>, out |-> <<>>]

\* get(url) is called
GetCall(u) ==
    /\ g.pc \in {"idle", "returned"}
    /\ g' = [IdleGet EXCEPT !.pc = "wait", !.url = u]
    /\ UNCHANGED <<clock, ratelimit_remaining, ratelimit_reset,
                   fileVars, syncVars, lockVars, mainVars>>

\* line 363: the condition of the wait loop
MustWait == ratelimit_remaining = 0 /\ ratelimit_reset > clock

\* a wait loop that is left whatever the quota state
GetLeaveLoopAlways ==
    /\ g.pc = "wait"
    /\ g' = [g EXCEPT !.pc = "send"]
    /\ UNCHANGED <<clock, ratelimit_remaining, ratelimit_reset,
                   fileVars, syncVars, lockVars, mainVars>>

\* lines 363-366: the wait loop is left
GetLeaveLoop ==
    /\ g.pc = "wait"
    /\ ~MustWait \/ ratelimit_reset + Margin - clock <= 0
    /\ g' = [g EXCEPT !.pc = "send"]
    /\ UNCHANGED <<clock, ratelimit_remaining, ratelimit_reset,
                   fileVars, syncVars, lockVars, mainVars>>

\* lines 363-371: time.sleep(min(5*60, s)) begins
GetSleep ==
    /\ g.pc = "wait"
    /\ MustWait
    /\ ratelimit_reset + Margin - clock > 0
    /\ g' = [g EXCEPT !.pc = "sleep",
                      !.wake = clock + Min(SleepCap, ratelimit_reset + Margin - clock)]
    /\ UNCHANGED <<clock, ratelimit_remaining, ratelimit_reset,
                   fileVars, syncVars, lockVars, mainVars>>

\* time.sleep returns: at least the time asked for has passed
GetWake ==
    /\ g.pc = "sleep"
    /\ clock >= g.wake
    /\ g' = [g EXCEPT !.pc = "wait"]
    /\ UNCHANGED <<clock, ratelimit_remaining, ratelimit_reset,
                   fileVars, syncVars, lockVars, mainVars>>

\* lines 376-386: the request is sent and answered; an HTTPError carries no
\* data, a 200 carries the decoded body, a body that is no JSON raises
GetRequest(code, hrem, hreset, body, next) ==
    /\ g.pc = "send"
    /\ code # 200 => body = "null" /\ next = <<>>
    /\ IF code = 200 /\ body = "garbled"
       THEN g' = [IdleGet EXCEPT !.pc = "raised", !.url = g.url]
       ELSE g' = [g EXCEPT !.pc = "got", !.code = code, !.hrem = hrem,
                           !.hreset = hreset, !.next = next,
                           !.data = IF body = "payload" THEN <<g.url>> ELSE <<>>]
    /\ UNCHANGED <<clock, ratelimit_remaining, ratelimit_reset,
                   fileVars, syncVars, lockVars, mainVars>>

\* get() that reads the quota headers before it looks at the status
GetClassifyHeadersFirst ==
    /\ g.pc = "got"
    /\ LET rem == IF g.hrem # <<>> THEN g.hrem[1] ELSE ratelimit_remaining
           reset == IF g.hreset # <<>> THEN g.hreset[1] ELSE ratelimit_reset
       IN /\ ratelimit_remaining' = rem
          /\ ratelimit_reset' = reset
          /\ IF g.code \notin {200, 403}
             THEN g' = [IdleGet EXCEPT !.pc = "raised", !.url = g.url]
             ELSE IF g.code # 200 \/ g.data = <<>>
             THEN IF rem = 0
                  THEN g' = [IdleGet EXCEPT !.pc = "wait", !.url = g.url,
                                                 !.code = g.code]
                  ELSE g' = [IdleGet EXCEPT !.pc = "raised", !.url = g.url]
             ELSE g' = [IdleGet EXCEPT !.pc = "returned", !.url = g.url,
                                       !.out = <<g.data[1], g.next>>]
    /\ UNCHANGED <<clock, fileVars, syncVars, lockVars, mainVars>>

\* lines 388-412: the status check, the quota headers, the retry or the result
GetClassify ==
    /\ g.pc = "got"
    /\ IF g.code \notin {200, 403}
       THEN /\ g' = [IdleGet EXCEPT !.pc = "raised", !.url = g.url]
            /\ UNCHANGED <<ratelimit_remaining, ratelimit_reset>>
       ELSE LET rem == IF g.hrem # <<>> THEN g.hrem[1] ELSE ratelimit_remaining
                reset == IF g.hreset # <<>> THEN g.hreset[1] ELSE ratelimit_reset
            IN /\ ratelimit_remaining' = rem
               /\ ratelimit_reset' = reset
               /\ IF g.code # 200 \/ g.data = <<>>
                  THEN IF rem = 0
                       THEN g' = [IdleGet EXCEPT !.pc = "wait", !.url = g.url,
                                                 !.code = g.code]
                       ELSE g' = [IdleGet EXCEPT !.pc = "raised", !.url = g.url]
                  ELSE g' = [IdleGet EXCEPT !.pc = "returned", !.url = g.url,
                                            !.out = <<g.data[1], g.next>>]
    /\ UNCHANGED <<clock, fileVars, syncVars, lockVars, mainVars>>

\* a second passes while get() sleeps (it may oversleep by one); the model
\* gives no duration to the other steps
ClockTick ==
    /\ g.pc = "sleep"
    /\ clock <= g.wake
    /\ clock < MaxClock
    /\ clock' = clock + 1
    /\ UNCHANGED <<ratelimit_remaining, ratelimit_reset, g,
                   fileVars, syncVars, lockVars, mainVars>>

GetIdle ==
    /\ clock = 0
    /\ ratelimit_remaining = 0
    /\ ratelimit_reset = 0
    /\ g = IdleGet

\* lines 327-336: the quota state GithubGet starts with, from /rate_limit
GetInit ==
    /\ clock = 0
    /\ ratelimit_remaining \in 0..MaxRemaining
    /\ ratelimit_reset \in ResetTimes
    /\ g = IdleGet

(***************************************************************************)
(* Specifications.                                                         *)
(***************************************************************************)
\* Spec: processes that call the LockFile API freely, and may end at any point
Init == LockInit /\ MainInit /\ FileIdle /\ cache = EmptyCache /\ SyncIdle /\ GetIdle

Next ==
    \E p \in Procs :
        \/ AcquireReentrant(p)
        \/ \E block \in BOOLEAN : AcquireEnter(p, block)
        \/ ReleaseCall(p)
        \/ LockStep(p)
        \/ Die(p)

Spec == Init /\ [][Next]_vars

\* SpecWait: every process calls acquire(block=True) once and then releases
\* what it got or ends while it holds it; a process inside a LockFile method
\* is scheduled again and again
WaitAcquire(p) == ~used[p] /\ AcquireEnter(p, TRUE)
WaitRelease(p) == count[p][0] >= 1 /\ ReleaseCall(p)
HolderDies(p) == count[p][0] >= 1 /\ stack[p] = <<>> /\ Die(p)

NextWait ==
    \E p \in Procs :
        \/ WaitAcquire(p)
        \/ WaitRelease(p)
        \/ LockStep(p)
        \/ HolderDies(p)

SpecWait == Init /\ [][NextWait]_vars /\ \A p \in Procs : WF_vars(LockStep(p))

\* SpecMain: every process runs main() once
NextMain ==
    \E p \in Procs :
        \/ MainAcquire(p)
        \/ MainAcquired(p)
        \/ \E ok \in BOOLEAN : MainProbe(p, ok)
        \/ \E ok \in BOOLEAN : MainLoad(p, ok)
        \/ \E ok \in BOOLEAN : MainProcess(p, ok)
        \/ \E ok \in BOOLEAN : MainSave(p, ok)
        \/ MainRelease(p)
        \/ MainReturn(p)
        \/ LockStep(p)

SpecMain == Init /\ [][NextMain]_vars

\* SpecSave: runs of the program that save a snapshot, and a reader of the file
InitSave == LockInit /\ fs = [k \in Levels |-> <<>>] /\ MainInit /\ SaveInit /\ SyncIdle /\ GetIdle

NextSave ==
    \/ SaveMkstemp
    \/ SaveWrite
    \/ SaveRename
    \/ SaveFail
    \/ SaveCrash
    \/ SaveAgain
    \/ ReaderRead

SpecSave == InitSave /\ [][NextSave]_vars

\* SpecSync: one PullCache that is updated again and again while the remote
\* project changes and time passes
InitSync == LockInit /\ fs = [k \in Levels |-> <<>>] /\ MainInit /\ FileIdle /\ SyncInit /\ GetIdle

NextSync ==
    \/ UpdateBegin
    \/ \E ok \in BOOLEAN : GetPage(ok)
    \/ \E ok \in BOOLEAN : SubFetch(ok)
    \/ UpdateReturn
    \/ Tick
    \/ \E k \in Ids, open \in BOOLEAN : Modify(k, open)

SpecSync == InitSync /\ [][NextSync]_vars

\* SpecGet: one GithubGet whose get() is called again and again while the
\* server answers as it likes and time passes
InitGet ==
    /\ LockInit /\ fs = [k \in Levels |-> <<>>] /\ MainInit /\ FileIdle
    /\ cache = EmptyCache /\ SyncIdle /\ GetInit

NextGet ==
    \/ \E u \in Urls : GetCall(u)
    \/ GetLeaveLoop
    \/ GetSleep
    \/ GetWake
    \/ \E code \in StatusCodes, hrem \in {<<>>} \cup {<<n>> : n \in 0..MaxRemaining},
          hreset \in {<<>>} \cup {<<t>> : t \in ResetTimes}, body \in Bodies,
          next \in {<<>>, <<NextUrl(g.url)>>} :
            GetRequest(code, hrem, hreset, body, next)
    \/ GetClassify
    \/ ClockTick

SpecGet == InitGet /\ [][NextGet]_vars

(***************************************************************************)
(* Claims about LockFile and main().                                       *)
(***************************************************************************)
\* the processes that hold the lock: alive, acquire() returned True and the
\* matching final release() has not happened (count >= 1)
Holder(p) == alive[p] /\ count[p][0] >= 1

\* C1: at most one live process at a time holds the lock, for every
\* interleaving of acquire(), release() and process death, also when the
\* entry starts out naming a dead process and contenders clean it up
\* concurrently.
C1_MutualExclusion == \A p, q \in Procs : p # q => ~(Holder(p) /\ Holder(q))

\* q has never called acquire() or release()
Fresh(q) == ~used[q]
OnlyOwner(p) == \A q \in Procs \ {p} : Fresh(q)

\* C3: an acquire() (blocking or not) that meets an entry naming a dead
\* process, with no other process inside a LockFile call while it runs,
\* returns True, and when it returns the entry names the caller and the
\* secondary '<lockfile>.lock' entry is absent again.
C3_StaleReclaim ==
    [][\A p \in Procs :
        (/\ solo[p]
         /\ Len(stack[p]) = 1
         /\ stack[p][1].op = "acquire"
         /\ stack'[p] = <<>>
         /\ alive'[p])
        => /\ ret'[p] = "acq_true"
           /\ fs'[0] = <<p>>
           /\ fs'[1] = <<>>
           /\ count'[p][0] = 1]_vars

C3_Witness ==
    \E p \in Procs :
        /\ init_fs[0] = <<DeadPid>>
        /\ solo[p]
        /\ stack[p] = <<>>
        /\ ret[p] = "acq_true"
        /\ fs[0] = <<p>>
        /\ fs[1] = <<>>

\* p, inside release() of its main LockFile object, takes a step
ReleaseStep(p) ==
    /\ Len(stack[p]) = 1
    /\ stack[p][1].op = "release"
    /\ stack'[p] # stack[p]

\* C4: once an owner holds the lock, a further acquire() returns True and
\* only increments count, leaving the filesystem alone; release() removes
\* the entry only on the call that takes count from 1 to 0; for an owner
\* that is the only user of the path the entry exists and names it while
\* count >= 1, and is gone after the last release().
C4_Reentrant ==
    /\ [](\A p \in Procs :
            /\ (count[p][0] > 0 /\ stack[p] # <<>>) => stack[p][1].op = "release"
            /\ (OnlyOwner(p) /\ Holder(p)) => fs[0] = <<p>>
            /\ (/\ OnlyOwner(p)
                /\ alive[p]
                /\ stack[p] = <<>>
                /\ ret[p] = "rel_ok"
                /\ count[p][0] = 0) => fs[0] = <<>>)
    /\ [][\A p \in Procs :
            /\ (count[p][0] > 0 /\ count'[p][0] > count[p][0])
               => /\ count'[p][0] = count[p][0] + 1
                  /\ ret'[p] = "acq_true"
                  /\ fs' = fs
                  /\ stack' = stack
            /\ (count[p][0] > 1 /\ count'[p][0] < count[p][0] /\ alive'[p])
               => /\ count'[p][0] = count[p][0] - 1
                  /\ ret'[p] = "rel_ok"
                  /\ fs' = fs
            /\ (ReleaseStep(p) /\ fs' # fs)
               => /\ count[p][0] = 1
                  /\ count'[p][0] = 0
                  /\ fs'[0] = <<>>]_vars

C4_Witness ==
    \E p \in Procs :
        /\ OnlyOwner(p)
        /\ alive[p]
        /\ stack[p] = <<>>
        /\ ret[p] = "rel_ok"
        /\ count[p][0] = 1
        /\ fs[0] = <<p>>

\* the processes that have started main()
Participants == {p \in Procs : mpc[p] # "start"}
\* main() is between a successful acquire() and its call of release()
InCritical(p) == mpc[p] \in {"probe", "load", "process", "save", "release"}
\* acquire(block=False) of main() has returned False
Refused(p) ==
    \/ mpc[p] = "acquire" /\ stack[p] = <<>> /\ ret[p] = "acq_false"
    \/ mpc[p] = "done" /\ rc[p] = "return 1"

\* C2: starting with no lock entry, of two processes that call
\* acquire(block=False) against each other one gets True and the other, as
\* long as the first still holds the lock, gets False: never both hold,
\* never both are refused; the refused process returns 1 from main() having
\* made no HTTP request and neither loaded nor saved the snapshot.
C2_NonBlockingExclusion ==
    /\ \A p \in Procs :
        Refused(p) => /\ trace[p] = <<"acquire">>
                      /\ mpc[p] = "done" => rc[p] = "return 1"
    /\ (init_fs[0] = <<>> /\ Cardinality(Participants) <= 2) =>
        \A p, q \in Procs : p # q =>
            /\ ~(InCritical(p) /\ InCritical(q))
            /\ ~(Holder(p) /\ Holder(q))
            /\ ~(Refused(p) /\ Refused(q))

C2_Witness ==
    \E p, q \in Procs :
        /\ p # q
        /\ init_fs[0] = <<>>
        /\ InCritical(p)
        /\ Holder(p)
        /\ mpc[q] = "done"
        /\ rc[q] = "return 1"
        /\ trace[q] = <<"acquire">>
\* the number of times step what occurs in the trace of p
RECURSIVE Count(_, _)
Count(t, what) ==
    IF t = <<>> THEN 0
    ELSE (IF Head(t) = what THEN 1 ELSE 0) + Count(Tail(t), what)
\* p has run main() to its end after acquire() returned True
Finished(p) == mpc[p] = "done" /\ rc[p] # "return 1"

\* C12: when a run of main() whose acquire() returned True has ended, with
\* return 0 or with an exception of whatever step, it has called
\* lock.release() exactly once, its count is 0 and the lock entry does not
\* name it.
C12_GuaranteedRelease ==
    \A p \in Procs :
        Finished(p) =>
            /\ Count(trace[p], "release") = 1
            /\ trace[p][Len(trace[p])] = "release"
            /\ count[p][0] = 0
            /\ fs[0] # <<p>>

\* C13: the entry of a live process that holds the lock is removed only by a
\* step of that process itself: no cleanup of another acquire() and no
\* release() of another process unlinks it.
C13_LiveEntryKept ==
    [][\A p \in Procs :
        (Holder(p) /\ fs[0] = <<p>> /\ fs'[0] # <<p>>)
            => stack'[p] # stack[p]]_vars

\* the lock entry exists and is not the leftover of a dead process
LiveEntry == fs[0] # <<>> /\ fs[0][1] \in Procs /\ alive[fs[0][1]]

\* C14: in every state the lock entry exists (leftovers of dead processes
\* apart) if and only if some live process has count >= 1.
C14_EntryIffHeld == LiveEntry <=> \E p \in Procs : Holder(p)

\* p is inside an acquire(block=False) of the lock itself
NonBlocking(p) ==
    /\ alive[p]
    /\ stack[p] # <<>>
    /\ stack[p][1].op = "acquire"
    /\ ~stack[p][1].block

\* C15: a process inside acquire(block=False) is never asleep in
\* time.sleep(1), waiting for an entry that another process holds.
C15_NonBlockingNeverSleeps ==
    \A p \in Procs :
        NonBlocking(p) =>
            \A i \in 1..Len(stack[p]) : stack[p][i].pc # "sleep"

\* p is inside an acquire(block=True) of the lock itself
Blocking(p) ==
    /\ alive[p]
    /\ stack[p] # <<>>
    /\ stack[p][1].op = "acquire"
    /\ stack[p][1].block
\* no other process holds the lock or is inside a LockFile method
NoRival(p) ==
    \A q \in Procs \ {p} :
        ~alive[q] \/ (stack[q] = <<>> /\ count[q][0] = 0)

\* C16: no step of an acquire(block=True) returns False; and a process inside
\* acquire(block=True) at a time when no other process holds the lock or is
\* inside a LockFile method gets its True, unless it dies or another process
\* comes to contend before.
C16_BlockingAcquire ==
    /\ [][\A p \in Procs :
            (Blocking(p) /\ stack'[p] = <<>> /\ alive'[p])
                => ret'[p] = "acq_true"]_vars
    /\ \A p \in Procs :
        (Blocking(p) /\ NoRival(p))
            ~> (ret[p] = "acq_true" \/ ~alive[p] \/ ~NoRival(p))
\* p sleeps in acquire(block=True) because a live process holds the entry
C16_Witness ==
    \E p \in Procs :
        /\ Blocking(p)
        /\ Len(stack[p]) = 1
        /\ stack[p][1].pc = "sleep"
        /\ \E q \in Procs \ {p} : fs[0] = <<q>> /\ Holder(q)

\* the steps of a run of main() in the order of lines 113-122
FullRun == <<"acquire", "probe", "load", "update", "save", "release">>
Pos(what) ==
    CASE what = "acquire" -> 1 [] what = "probe" -> 2 [] what = "load" -> 3
      [] what = "update" -> 4 [] what = "save" -> 5 [] what = "release" -> 6
\* the steps of t follow the order of FullRun, none of them twice
InOrder(t) == \A i \in 1..(Len(t) - 1) : Pos(t[i]) < Pos(t[i + 1])
\* step what has been taken in t
Took(t, what) == \E i \in 1..Len(t) : t[i] = what
\* the step that p is about to take reads or writes the snapshot file
AtFile(p) == mpc[p] \in {"load", "save"}

\* C20: the steps of every run of main() occur in the order acquire, probe,
\* load, update, save, release, each at most once; the run is at a load or a
\* save of the snapshot file only while it holds the lock; no step follows
\* acquire() unless it returned True; a save is directly preceded by the
\* update, and once the update has run and main() has reached release() the
\* snapshot has been saved exactly once; a run that returns 0 has taken all
\* six steps.
C20_RunOrder ==
    \A p \in Procs :
        /\ InOrder(trace[p])
        /\ AtFile(p) => Holder(p) /\ InCritical(p)
        /\ InCritical(p) => Holder(p) /\ trace[p][1] = "acquire"
        /\ Len(trace[p]) >= 2 => trace[p][1] = "acquire" /\ ~Refused(p)
        /\ \A i \in 1..Len(trace[p]) :
            trace[p][i] = "save" => i > 1 /\ trace[p][i - 1] = "update"
        /\ (Took(trace[p], "update") /\ mpc[p] \in {"release", "releasing", "done"})
               => Took(trace[p], "save")
        /\ rc[p] = "return 0" => trace[p] = FullRun
\* one process has run main() through all its steps and returned 0, and
\* another, which acquired the lock after it, has ended after a failed probe
C20_Witness ==
    \E p, q \in Procs :
        /\ rc[p] = "return 0"
        /\ trace[p] = FullRun
        /\ rc[q] = "raised"
        /\ trace[q] = <<"acquire", "probe", "release">>

(***************************************************************************)
(* Claims about PullCache.save().                                          *)
(***************************************************************************)
\* C5: at every instant the snapshot file is what it was before save()
\* began or the complete new serialization, also when save() raises or the
\* process dies at any step; a reader never reads a partial snapshot; a
\* failure after the temp file is written and before the rename leaves the
\* file unchanged and parseable.
C5_AtomicSave ==
    /\ disk = <<>> \/ Complete(disk[1])
    /\ seen = <<>> \/ Complete(seen[1])
    /\ spc \in {"dump", "rename", "raised", "crashed"} => disk = before
    /\ spc = "done" => disk = <<Serialize(cache)>>
    /\ disk \in {before, <<Serialize(cache)>>}

C5_Witness ==
    /\ spc \in {"raised", "crashed"}
    /\ tmpf # <<>>
    /\ Complete(tmpf[1])
    /\ disk # <<>>
    /\ disk = before
    /\ Parse(disk[1]) # cache
    /\ seen = disk

(***************************************************************************)
(* Claims about PullCache.update().                                        *)
(***************************************************************************)
\* the positions of the fetched pulls that carry identifier k
Fetched(k) == {j \in 1..Len(call.pulls) : Key(call.pulls[j].number) = k}
LastOf(S) == CHOOSE j \in S : \A h \in S : h <= j

\* C6: when update() has succeeded, the watermark stored in the snapshot is
\* greater than or equal to the watermark that was stored when it was called.
C6_WatermarkMonotone ==
    call.pc = "done" => Watermark(cache) >= Watermark(cache0)

\* C7: when update() has succeeded, the preceding update() had succeeded too
\* and the remote project has not changed since before the preceding one
\* began, the record mapping equals the mapping the preceding one left.
C7_IdempotentMerge ==
    (call.pc = "done" /\ clean = 2 /\ prevMap # <<>>)
        => Records(cache) = prevMap[1]

\* C8: when update() has succeeded, the record of every identifier that was
\* fetched is exactly the last fetched item with that identifier, and the
\* record of every other identifier is the one stored before the call (none,
\* if none was stored).
C8_LastWriteWins ==
    call.pc = "done" =>
        \A k \in Ids :
            IF Fetched(k) # {}
            THEN Records(cache)[k] = <<call.pulls[LastOf(Fetched(k))]>>
            ELSE Records(cache)[k] = Records(cache0)[k]
\* an open pull stored with its events, commits and reviews is replaced by the
\* closed pull fetched for it, which has none, while another stored record
\* that was not fetched stays
C8_Witness ==
    /\ call.pc = "done"
    /\ \E k \in Ids :
        /\ Fetched(k) # {}
        /\ Records(cache0)[k] # <<>>
        /\ Records(cache0)[k][1].events # <<>>
        /\ Records(cache)[k][1].events = <<>>
    /\ \E k \in Ids :
        /\ Fetched(k) = {}
        /\ Records(cache)[k] # <<>>

\* the listing the server holds for the call in progress, in server order
Listing == SortDesc(Listed(call.since))
\* the undisturbed call: no remote modification since it began
Undisturbed == clean >= 1

C17_NothingLost ==
    call.pc = "done" =>
        /\ cache.last_updated = <<FormatTime(call.new_time)>>
        /\ call.since = Watermark(cache0)
        /\ \A k \in Ids :
            began[k] > 0 =>
                /\ Records(cache)[k] # <<>>
                /\ Records(cache)[k][1].ver >= began[k]

\* record r carries the sub-collection fetched for its pull
Has(r, what) == r[what] = <<[pull |-> r.number, what |-> what]>>
\* the records that the update() in progress has stored
StoredNow == {Records(cache)[k][1] : k \in {i \in Ids : Fetched(i) # {}}}

\* C18 as stated: when update() has succeeded, every record it stored is a
\* pull and carries its events, commits and reviews.
C18_AllSubCollections ==
    call.pc = "done" =>
        \A r \in StoredNow :
            r.pr /\ Has(r, "events") /\ Has(r, "commits") /\ Has(r, "reviews")

\* C18 amended: when update() has succeeded, every record it stored is a
\* pull; a stored pull that is open carries the events, commits and reviews
\* fetched for it, a stored pull that is not open carries none of them; and
\* no record of the snapshot is an item of another kind.
C18_OpenSubCollections ==
    /\ call.pc = "done" =>
        \A r \in StoredNow :
            /\ r.pr
            /\ r.open =>
                Has(r, "events") /\ Has(r, "commits") /\ Has(r, "reviews")
            /\ ~r.open =>
                r.events = <<>> /\ r.commits = <<>> /\ r.reviews = <<>>
    /\ \A k \in Ids : Records(cache)[k] # <<>> => Records(cache)[k][1].pr
\* an update() has stored an open pull with its three sub-collections and a
\* closed pull without
C18_Witness ==
    /\ call.pc = "done"
    /\ \E r \in StoredNow : r.open /\ Has(r, "reviews")
    /\ \E r \in StoredNow : ~r.open /\ r.events = <<>>

\* lines 270-271: snapshot c with the default watermark and the empty
\* mapping filled in where it had none
WithDefaults(c) ==
    [last_updated |-> IF c.last_updated = <<>> THEN <<EpochStamp>>
                      ELSE c.last_updated,
     pulls |-> IF c.pulls = <<>> THEN <<NoPulls>> ELSE c.pulls]

\* C19: while update() is fetching, and when it has failed because a page
\* request or a sub-request raised, the snapshot in memory is the snapshot the
\* call found with the defaults filled in: same watermark, same records.
C19_FailureKeepsSnapshot ==
    call.pc \in {"list", "sub", "failed"} => cache = WithDefaults(cache0)
\* an update() has failed although the snapshot holds an older version of an
\* item that has changed on the server since, and the snapshot still has the
\* watermark and that older record
C19_Witness ==
    /\ call.pc = "failed"
    /\ cache0.last_updated # <<>>
    /\ cache.last_updated = cache0.last_updated
    /\ \E k \in Ids :
        /\ Records(cache)[k] # <<>>
        /\ Records(cache)[k][1].ver < remote[k].ver
        /\ FormatTime(remote[k].upd) >= Watermark(cache)

(***************************************************************************)
(* Claims about GithubGet.get().                                           *)
(***************************************************************************)
\* C9: get() sends a request only when ratelimit_remaining is not 0 or the
\* time is at or after ratelimit_reset; at the wait loop with the time at or
\* after ratelimit_reset it goes on to the request, whatever
\* ratelimit_remaining is; and it begins to sleep only when
\* ratelimit_remaining is 0 and the time is before ratelimit_reset.
C9_Throttle ==
    [][/\ (g.pc = "send" /\ g'.pc # "send")
            => (ratelimit_remaining # 0 \/ clock >= ratelimit_reset)
       /\ (g.pc = "wait" /\ clock >= ratelimit_reset /\ g' # g)
            => g'.pc = "send"
       /\ (g.pc = "wait" /\ g'.pc = "sleep")
            => (ratelimit_remaining = 0 /\ clock < ratelimit_reset)]_vars
\* the request is about to be sent with the quota still 0, after a full sleep
\* and a second one that ended after the reset time
C9_Witness ==
    /\ g.pc = "send"
    /\ ratelimit_remaining = 0
    /\ g.wake > SleepCap
    /\ g.wake >= ratelimit_reset
    /\ clock >= ratelimit_reset

\* the quota a response leaves: its header values, else the previous ones
NewRemaining == IF g.hrem # <<>> THEN g.hrem[1] ELSE ratelimit_remaining
NewReset == IF g.hreset # <<>> THEN g.hreset[1] ELSE ratelimit_reset

\* C10: get() handles a response thus: a status other than 200 and 403 raises
\* and leaves the quota state as it was; otherwise the quota state becomes
\* what the headers say (the previous values without headers), and then 200
\* with data returns the data and the next link, 403 with remaining 0 goes
\* back to the wait loop with the same url, 403 with another remaining raises.
C10_Classify ==
    [][(g.pc = "got" /\ g' # g) =>
        /\ g.code \notin {200, 403} =>
            /\ g'.pc = "raised"
            /\ ratelimit_remaining' = ratelimit_remaining
            /\ ratelimit_reset' = ratelimit_reset
        /\ g.code \in {200, 403} =>
            /\ ratelimit_remaining' = NewRemaining
            /\ ratelimit_reset' = NewReset
        /\ (g.code = 200 /\ g.data # <<>>) =>
            /\ g'.pc = "returned"
            /\ g'.out = <<g.data[1], g.next>>
        /\ (g.code = 403 /\ NewRemaining = 0) =>
            /\ g'.pc = "wait"
            /\ g'.url = g.url
        /\ (g.code = 403 /\ NewRemaining # 0) => g'.pc = "raised"]_vars
\* after a 403 that set the quota to 0, get() has slept and is about to send
\* the request for the same url again
C10_Witness ==
    /\ g.pc = "send"
    /\ g.code = 403
    /\ g.url \in Urls
    /\ ratelimit_remaining = 0
    /\ g.wake > 0

====
